---------------------------- MODULE Spec2Model ----------------------------
(***************************************************************************)
(* A model of the fitness tracker module main.py: the dataclasses          *)
(* InfoMessage, Training, Running, SportsWalking and Swimming, the         *)
(* dispatcher read_package, the function main and the driver loop of the   *)
(* __main__ block.                                                         *)
(*                                                                         *)
(* Numbers.  Python evaluates the formulas in binary floating point; the   *)
(* model evaluates them in exact rational arithmetic, a number being the   *)
(* record [n |-> numerator, d |-> denominator] in lowest terms with d > 0. *)
(* The two agree up to the rounding error of a double (about 1e-16         *)
(* relative), which no value printed to three decimals in this model is    *)
(* close enough to a rounding boundary to expose.  Identities that hold    *)
(* only for exact arithmetic (such as (x / d) * d = x) are therefore not   *)
(* stated as properties of the program.                                    *)
(*                                                                         *)
(* Exceptions.  The value of a Python expression is either a number or a   *)
(* raised exception, the record [raise |-> type, subject |-> ..,           *)
(* options |-> ..].  An operator applied to a raised operand yields that   *)
(* operand: the exception of the leftmost failing subexpression            *)
(* propagates, as in Python's left-to-right evaluation.                    *)
(***************************************************************************)
EXTENDS Integers, Sequences, FiniteSets, TLC

VARIABLES
    packages,   \* the driver's list of (workout_type, data) pairs
    idx,        \* number of pairs the for loop has taken from packages
    pc,         \* position of the driver: "read", "main", "done", "failed"
    training,   \* the driver's variable training (NoTraining before a bind)
    info,       \* main's local variable info (NoInfo before a bind)
    out,        \* the lines printed to standard output, in order
    err         \* the exception that left the program (NoError if none)

vars == <<packages, idx, pc, training, info, out, err>>

-----------------------------------------------------------------------------
(* Bounds of the model *)

\* longest list of packages handed to the driver
MaxPackages == 3
\* durations tried are 0, 1/2, 1, ..., MaxHalfHours/2 hours
MaxHalfHours == 2
\* longest argument list tried (Swimming takes five positional values)
MaxArgs == 6

-----------------------------------------------------------------------------
(* Numbers and exceptions *)

Abs(i) == IF i < 0 THEN -i ELSE i

RECURSIVE GCD(_, _)
GCD(a, b) == IF b = 0 THEN a ELSE GCD(b, a % b)

\* the rational n/d (d # 0) in lowest terms, denominator positive
Q(n, d) ==
    LET g == GCD(Abs(n), Abs(d))
        s == IF d < 0 THEN -1 ELSE 1
    IN  [n |-> s * (n \div g), d |-> s * (d \div g)]

FromInt(i) == [n |-> i, d |-> 1]

Raise(type, subject, options) ==
    [raise |-> type, subject |-> subject, options |-> options]

IsRaise(x) == "raise" \in DOMAIN x

NoError == Raise("None", "", <<>>)

\* x + y
Add(x, y) ==
    IF IsRaise(x) THEN x
    ELSE IF IsRaise(y) THEN y
    ELSE Q(x.n * y.d + y.n * x.d, x.d * y.d)

\* x - y
Sub(x, y) ==
    IF IsRaise(x) THEN x
    ELSE IF IsRaise(y) THEN y
    ELSE Q(x.n * y.d - y.n * x.d, x.d * y.d)

\* x * y (cross-cancelled before multiplying, to keep the integers small)
Mul(x, y) ==
    IF IsRaise(x) THEN x
    ELSE IF IsRaise(y) THEN y
    ELSE LET a == Q(x.n, y.d)
             b == Q(y.n, x.d)
         IN  Q(a.n * b.n, a.d * b.d)

\* x / y: Python raises ZeroDivisionError for a zero divisor, int or float
TrueDiv(x, y) ==
    IF IsRaise(x) THEN x
    ELSE IF IsRaise(y) THEN y
    ELSE IF y.n = 0 THEN Raise("ZeroDivisionError", "", <<>>)
    ELSE Mul(x, Q(y.d, y.n))

\* x // y: the floor of the quotient, towards minus infinity
FloorDiv(x, y) ==
    IF IsRaise(x) THEN x
    ELSE IF IsRaise(y) THEN y
    ELSE IF y.n = 0 THEN Raise("ZeroDivisionError", "", <<>>)
    ELSE LET q == Mul(x, Q(y.d, y.n))
         IN  FromInt(q.n \div q.d)

\* x ** k for a natural number k
RECURSIVE Pow(_, _)
Pow(x, k) == IF k = 0 THEN FromInt(1) ELSE Mul(x, Pow(x, k - 1))

\* format(x, '.3f'): x rounded to thousandths, ties to the even digit;
\* the result is the printed number counted in thousandths (9.750 is 9750).
\* The three decimals are taken by long division, one digit at a time.
Format3f(x) ==
    LET a == Abs(x.n)
        r0 == a % x.d
        r1 == (r0 * 10) % x.d
        r2 == (r1 * 10) % x.d
        r3 == (r2 * 10) % x.d
        q == (a \div x.d) * 1000 + ((r0 * 10) \div x.d) * 100
                + ((r1 * 10) \div x.d) * 10 + ((r2 * 10) \div x.d)
        up == (2 * r3 > x.d) \/ (2 * r3 = x.d /\ q % 2 = 1)
        m == IF up THEN q + 1 ELSE q
    IN  IF x.n < 0 THEN -m ELSE m

-----------------------------------------------------------------------------
(* The classes *)

Range(s) == {s[i] : i \in 1..Len(s)}

IndexOf(s, e) == CHOOSE i \in 1..Len(s) : s[i] = e

\* Training.M_IN_KM and Training.M_IN_H, inherited by every subclass
M_IN_KM == 1000
M_IN_H == 60

\* LEN_STEP as the class of the instance resolves it: Swimming overrides
\* the value 0.65 of Training with 1.38
LEN_STEP(cls) == IF cls = "Swimming" THEN Q(138, 100) ELSE Q(65, 100)

Running_COEFF_CALORIE_1 == 18
Running_COEFF_CALORIE_2 == 20

SportsWalking_COEFF_CALORIE_1 == Q(35, 1000)
SportsWalking_COEFF_CALORIE_2 == Q(29, 1000)
SportsWalking_COEFF_CALORIE_3 == 2

Swimming_COEFF_CALORIE_1 == Q(11, 10)
Swimming_COEFF_CALORIE_2 == 2

\* Training.__subclasses__(): the direct subclasses in definition order
Subclasses == <<"Running", "SportsWalking", "Swimming">>

Classes == {"Training"} \cup Range(Subclasses)

\* SHORT_NAME with the tags of Running and SportsWalking exchanged
SHORT_NAME_swapped(cls) ==
    CASE cls = "Running" -> "WLK"
      [] cls = "SportsWalking" -> "RUN"
      [] cls = "Swimming" -> "SWM"

\* the class attribute SHORT_NAME; Training only annotates it and sets none
SHORT_NAME(cls) ==
    CASE cls = "Running" -> "RUN"
      [] cls = "SportsWalking" -> "WLK"
      [] cls = "Swimming" -> "SWM"

\* the fields of the generated __init__, those of the base class first
Fields(cls) ==
    CASE cls = "Training" -> <<"action", "duration", "weight">>
      [] cls = "Running" -> <<"action", "duration", "weight">>
      [] cls = "SportsWalking" -> <<"action", "duration", "weight", "height">>
      [] cls = "Swimming" ->
            <<"action", "duration", "weight", "length_pool", "count_pool">>

\* an __init__ that ignores the values beyond its fields
New_lenient(cls, data) ==
    IF Len(data) < Len(Fields(cls))
    THEN Raise("TypeError", cls, <<>>)
    ELSE [k \in {"cls"} \cup Range(Fields(cls)) |->
            IF k = "cls" THEN cls ELSE data[IndexOf(Fields(cls), k)]]

\* cls(*data): the generated __init__ binds the values to the fields by
\* position and raises TypeError when their number is not the fields'
New(cls, data) ==
    IF Len(data) # Len(Fields(cls))
    THEN Raise("TypeError", cls, <<>>)
    ELSE [k \in {"cls"} \cup Range(Fields(cls)) |->
            IF k = "cls" THEN cls ELSE data[IndexOf(Fields(cls), k)]]

NoTraining == [cls |-> "None"]

NoInfo == [training_type |-> "None"]

\* Training.get_distance, overridden by no subclass
get_distance(t) ==
    TrueDiv(Mul(t.action, LEN_STEP(t.cls)), FromInt(M_IN_KM))

\* a mean speed that answers 0 for a zero duration instead of dividing
Training_get_mean_speed_masked(t) ==
    IF t.duration.n = 0 THEN FromInt(0)
    ELSE TrueDiv(get_distance(t), t.duration)

Training_get_mean_speed(t) == TrueDiv(get_distance(t), t.duration)

\* Swimming without its override of get_mean_speed
Swimming_get_mean_speed_inherited(t) == Training_get_mean_speed(t)

Swimming_get_mean_speed(t) ==
    TrueDiv(TrueDiv(Mul(t.length_pool, t.count_pool), FromInt(M_IN_KM)),
            t.duration)

\* self.get_mean_speed() as the class of the instance resolves it
get_mean_speed(t) ==
    IF t.cls = "Swimming"
    THEN Swimming_get_mean_speed(t)
    ELSE Training_get_mean_speed(t)

\* a base method that returns 0 instead of raising
Training_get_spent_calories_zero(t) == FromInt(0)

Training_get_spent_calories(t) == Raise("NotImplementedError", t.cls, <<>>)

\* the Running formula without the conversion of hours to minutes
Running_get_spent_calories_hours(t) ==
    Mul(TrueDiv(Mul(Sub(Mul(FromInt(Running_COEFF_CALORIE_1),
                            get_mean_speed(t)),
                        FromInt(Running_COEFF_CALORIE_2)),
                    t.weight),
                FromInt(M_IN_KM)),
        t.duration)

Running_get_spent_calories(t) ==
    Mul(Mul(TrueDiv(Mul(Sub(Mul(FromInt(Running_COEFF_CALORIE_1),
                                get_mean_speed(t)),
                            FromInt(Running_COEFF_CALORIE_2)),
                        t.weight),
                    FromInt(M_IN_KM)),
            t.duration),
        FromInt(M_IN_H))

\* the SportsWalking formula with / in the place of //
SportsWalking_get_spent_calories_truediv(t) ==
    Mul(Mul(Add(Mul(SportsWalking_COEFF_CALORIE_1, t.weight),
                Mul(Mul(TrueDiv(Pow(get_mean_speed(t),
                                    SportsWalking_COEFF_CALORIE_3),
                                t.height),
                        SportsWalking_COEFF_CALORIE_2),
                    t.weight)),
            t.duration),
        FromInt(M_IN_H))

SportsWalking_get_spent_calories(t) ==
    Mul(Mul(Add(Mul(SportsWalking_COEFF_CALORIE_1, t.weight),
                Mul(Mul(FloorDiv(Pow(get_mean_speed(t),
                                     SportsWalking_COEFF_CALORIE_3),
                                 t.height),
                        SportsWalking_COEFF_CALORIE_2),
                    t.weight)),
            t.duration),
        FromInt(M_IN_H))

Swimming_get_spent_calories(t) ==
    Mul(Mul(Add(get_mean_speed(t), Swimming_COEFF_CALORIE_1),
            FromInt(Swimming_COEFF_CALORIE_2)),
        t.weight)

\* self.get_spent_calories() as the class of the instance resolves it
get_spent_calories(t) ==
    CASE t.cls = "Running" -> Running_get_spent_calories(t)
      [] t.cls = "SportsWalking" -> SportsWalking_get_spent_calories(t)
      [] t.cls = "Swimming" -> Swimming_get_spent_calories(t)
      [] OTHER -> Training_get_spent_calories(t)

\* Training.show_training_info: the arguments of InfoMessage(...) are
\* evaluated in order, and the first that raises ends the call
show_training_info(t) ==
    LET distance == get_distance(t)
        speed == get_mean_speed(t)
        calories == get_spent_calories(t)
    IN  IF IsRaise(distance) THEN distance
        ELSE IF IsRaise(speed) THEN speed
        ELSE IF IsRaise(calories) THEN calories
        ELSE [training_type |-> t.cls,
              duration |-> t.duration,
              distance |-> distance,
              speed |-> speed,
              calories |-> calories]

\* InfoMessage.get_message: the template INFO_STRING filled in; the fixed
\* text of the template is left out, the five rendered fields are kept
get_message(m) ==
    [training_type |-> m.training_type,
     duration |-> Format3f(m.duration),
     distance |-> Format3f(m.distance),
     speed |-> Format3f(m.speed),
     calories |-> Format3f(m.calories)]

\* the dict workout_types of read_package, in insertion order
workout_types ==
    [i \in 1..Len(Subclasses) |->
        [key |-> SHORT_NAME(Subclasses[i]), value |-> Subclasses[i]]]

\* list(workout_types): the keys in insertion order
Keys(dict) == [i \in 1..Len(dict) |-> dict[i].key]

\* dict[key], for a key the dict holds
Lookup(dict, key) == dict[CHOOSE i \in 1..Len(dict) : dict[i].key = key].value

\* read_package without its membership test: the dict lookup raises KeyError
read_package_unchecked(workout_type, data) ==
    IF workout_type \notin Range(Keys(workout_types))
    THEN Raise("KeyError", workout_type, <<>>)
    ELSE New(Lookup(workout_types, workout_type), data)

read_package(workout_type, data) ==
    IF workout_type \notin Range(Keys(workout_types))
    THEN Raise("ValueError", workout_type, Keys(workout_types))
    ELSE New(Lookup(workout_types, workout_type), data)

-----------------------------------------------------------------------------
(* Inputs *)

\* the values tried at each position of an argument list: step or stroke
\* counts, durations in hours, weights in kg, a height in cm or a pool
\* length in m, a number of pool laps, and 1 for any value beyond the fifth
ArgValues(pos) ==
    CASE pos = 1 -> {FromInt(0), FromInt(720), FromInt(9000), FromInt(15000)}
      [] pos = 2 -> {Q(h, 2) : h \in 0..MaxHalfHours}
      [] pos = 3 -> {FromInt(75), FromInt(80)}
      [] pos = 4 -> {FromInt(25), FromInt(180)}
      [] pos = 5 -> {FromInt(0), FromInt(40)}
      [] OTHER -> {FromInt(1)}

RECURSIVE ListsOfLen(_)
ListsOfLen(len) ==
    IF len = 0 THEN {<<>>}
    ELSE {Append(l, v) : l \in ListsOfLen(len - 1), v \in ArgValues(len)}

\* the argument lists tried: two to MaxArgs values
ArgLists == UNION {ListsOfLen(len) : len \in 2..MaxArgs}

\* the tags tried: the three registered ones and two that are not
Tags == {"RUN", "WLK", "SWM", "BIKE", "run"}

Package(tag, data) == [workout_type |-> tag, data |-> data]

AllPackages == {Package(tag, data) : tag \in Tags, data \in ArgLists}

\* the three packages of the __main__ block
MainPackages ==
    <<Package("SWM", <<FromInt(720), FromInt(1), FromInt(80),
                       FromInt(25), FromInt(40)>>),
      Package("RUN", <<FromInt(15000), FromInt(1), FromInt(75)>>),
      Package("WLK", <<FromInt(9000), FromInt(1), FromInt(75),
                       FromInt(180)>>)>>

\* the packages the driver's lists are made of: those of the __main__ block,
\* an unknown tag, a zero duration and an argument list one value short
DriverPackages ==
    Range(MainPackages) \cup
    {Package("BIKE", <<FromInt(15000), FromInt(1), FromInt(75)>>),
     Package("RUN", <<FromInt(15000), FromInt(0), FromInt(75)>>),
     Package("WLK", <<FromInt(9000), FromInt(1), FromInt(75)>>)}

RECURSIVE PackageLists(_)
PackageLists(len) ==
    IF len = 0 THEN {<<>>}
    ELSE {Append(l, p) : l \in PackageLists(len - 1), p \in DriverPackages}

-----------------------------------------------------------------------------
(* The driver *)

\* one iteration of the for loop up to the call of main: the next pair is
\* taken from packages and read_package binds training, or raises
ReadPackage ==
    /\ pc = "read"
    /\ idx < Len(packages)
    /\ LET p == packages[idx + 1]
           r == read_package(p.workout_type, p.data)
       IN  /\ idx' = idx + 1
           /\ IF IsRaise(r)
              THEN /\ pc' = "failed"
                   /\ err' = r
                   /\ UNCHANGED training
              ELSE /\ pc' = "main"
                   /\ training' = r
                   /\ UNCHANGED err
    /\ UNCHANGED <<packages, info, out>>

\* a main that catches the exception and lets the loop go on
Main_swallow ==
    /\ pc = "main"
    /\ LET r == show_training_info(training)
       IN  IF IsRaise(r)
           THEN /\ pc' = IF idx < Len(packages) THEN "read" ELSE "done"
                /\ UNCHANGED <<info, out, err>>
           ELSE /\ info' = r
                /\ out' = Append(out, get_message(r))
                /\ pc' = IF idx < Len(packages) THEN "read" ELSE "done"
                /\ UNCHANGED err
    /\ UNCHANGED <<packages, idx, training>>

\* main(training): the report is computed and its message printed, or the
\* exception of show_training_info leaves main and the loop
Main ==
    /\ pc = "main"
    /\ LET r == show_training_info(training)
       IN  IF IsRaise(r)
           THEN /\ pc' = "failed"
                /\ err' = r
                /\ UNCHANGED <<info, out>>
           ELSE /\ info' = r
                /\ out' = Append(out, get_message(r))
                /\ pc' = IF idx < Len(packages) THEN "read" ELSE "done"
                /\ UNCHANGED err
    /\ UNCHANGED <<packages, idx, training>>

\* a caller that builds an instance of any class itself, the base class
\* included, before handing it to main
Construct ==
    /\ pc = "construct"
    /\ \E cls \in Classes, data \in ArgLists :
          LET r == New(cls, data)
          IN  IF IsRaise(r)
              THEN /\ pc' = "failed"
                   /\ err' = r
                   /\ UNCHANGED training
              ELSE /\ pc' = "main"
                   /\ training' = r
                   /\ UNCHANGED err
    /\ UNCHANGED <<packages, idx, info, out>>

-----------------------------------------------------------------------------
(* Specifications *)

Start(list) ==
    /\ packages = list
    /\ idx = 0
    /\ pc = IF list = <<>> THEN "done" ELSE "read"
    /\ training = NoTraining
    /\ info = NoInfo
    /\ out = <<>>
    /\ err = NoError

\* the driver on any list of at most MaxPackages packages
Init == \E len \in 0..MaxPackages : \E list \in PackageLists(len) : Start(list)

Next == ReadPackage \/ Main

Spec == Init /\ [][Next]_vars

\* the driver on one package of any tag and any argument list
InitCalc == \E p \in AllPackages : Start(<<p>>)

SpecCalc == InitCalc /\ [][Next]_vars

\* main handed an instance the caller built
InitDirect ==
    /\ packages = <<>>
    /\ idx = 0
    /\ pc = "construct"
    /\ training = NoTraining
    /\ info = NoInfo
    /\ out = <<>>
    /\ err = NoError

NextDirect == Construct \/ Main

SpecDirect == InitDirect /\ [][NextDirect]_vars

-----------------------------------------------------------------------------
(* Properties.  Those about one package are stated of SpecCalc, where the  *)
(* driver's list holds the single package First.                           *)

First == packages[1]

\* the driver has taken the one package of its list
Taken == idx = 1 /\ Len(packages) = 1

RegisteredTags == {"RUN", "WLK", "SWM"}

\* the number of positional values the variant of a registered tag takes
Arity(tag) ==
    CASE tag = "RUN" -> 3
      [] tag = "WLK" -> 4
      [] tag = "SWM" -> 5

NonNegative(x) == x.n >= 0

Positive(x) == x.n > 0

\* action_count >= 0, duration_hours > 0, weight_kg > 0, height_cm > 0,
\* pool_length_m >= 0 and pool_lap_count >= 0
ValidInput(t) ==
    /\ NonNegative(t.action)
    /\ Positive(t.duration)
    /\ Positive(t.weight)
    /\ t.cls = "SportsWalking" => Positive(t.height)
    /\ t.cls = "Swimming" =>
          NonNegative(t.length_pool) /\ NonNegative(t.count_pool)

(* C1: for every variant and every valid input, the duration, distance,    *)
(* mean speed and calories of the report are non-negative.  The program    *)
(* breaks it: Running yields negative calories when 18 * mean_speed < 20.  *)
C1_ReportNonNegative ==
    (Taken /\ pc = "done" /\ ValidInput(training)) =>
        /\ NonNegative(info.duration)
        /\ NonNegative(info.distance)
        /\ NonNegative(info.speed)
        /\ NonNegative(info.calories)

(* C2 as stated: a tag that is not registered fails with the unknown-type  *)
(* error (ValueError), binds no instance, and the error carries the tag    *)
(* and the valid tags in the order SWM, RUN, WLK.                          *)
C2_ValidTagsSwmFirst ==
    (Taken /\ First.workout_type \notin RegisteredTags) =>
        /\ pc = "failed"
        /\ err = Raise("ValueError", First.workout_type,
                       <<"SWM", "RUN", "WLK">>)
        /\ training = NoTraining

(* C2 amended: a tag that is not registered fails with ValueError, binds   *)
(* no instance, computes and prints nothing, and the error carries the tag *)
(* and the valid tags in the order RUN, WLK, SWM, the order in which the   *)
(* subclasses are defined.                                                 *)
C2_UnknownTag ==
    (Taken /\ First.workout_type \notin RegisteredTags) =>
        /\ pc = "failed"
        /\ err = Raise("ValueError", First.workout_type,
                       <<"RUN", "WLK", "SWM">>)
        /\ training = NoTraining
        /\ info = NoInfo
        /\ out = <<>>

C2_Witness ==
    /\ Taken
    /\ First.workout_type = "BIKE"
    /\ Len(First.data) = 3
    /\ err.raise = "ValueError"

(* C3: for every variant, an input with duration_hours = 0 makes the       *)
(* report fail with ZeroDivisionError: once main has run, no report was    *)
(* returned, nothing was printed and the exception has left the program.   *)
C3_ZeroDuration ==
    (Taken /\ pc # "main" /\ training # NoTraining
           /\ training.duration.n = 0) =>
        /\ pc = "failed"
        /\ err = Raise("ZeroDivisionError", "", <<>>)
        /\ info = NoInfo
        /\ out = <<>>

C3_Witness ==
    /\ Taken
    /\ training.cls = "Swimming"
    /\ training.duration.n = 0
    /\ pc = "failed"
    /\ err.raise = "ZeroDivisionError"

\* the variant of a registered tag built from the positional values
\* themselves: Running(a, d, w), SportsWalking(a, d, w, h) or
\* Swimming(a, d, w, l, c)
Direct(tag, data) ==
    CASE tag = "RUN" ->
            [cls |-> "Running", action |-> data[1], duration |-> data[2],
             weight |-> data[3]]
      [] tag = "WLK" ->
            [cls |-> "SportsWalking", action |-> data[1],
             duration |-> data[2], weight |-> data[3], height |-> data[4]]
      [] tag = "SWM" ->
            [cls |-> "Swimming", action |-> data[1], duration |-> data[2],
             weight |-> data[3], length_pool |-> data[4],
             count_pool |-> data[5]]

(* C4: for a registered tag and an argument list of its arity, the         *)
(* instance read_package binds is the variant built directly from the same *)
(* positional values (RUN Running, WLK SportsWalking, SWM Swimming), and   *)
(* main's report, printed line or exception is that of the direct variant. *)
C4_RoundTrip ==
    (Taken /\ First.workout_type \in RegisteredTags
           /\ Len(First.data) = Arity(First.workout_type)) =>
        LET direct == Direct(First.workout_type, First.data)
            report == show_training_info(direct)
        IN  /\ pc \in {"main", "done", "failed"}
            /\ training = direct
            /\ pc = "done" =>
                  /\ ~IsRaise(report)
                  /\ info = report
                  /\ out = <<get_message(report)>>
            /\ pc = "failed" => IsRaise(report) /\ err = report

C4_Witness ==
    /\ Taken
    /\ pc = "done"
    /\ First.workout_type = "SWM"
    /\ training.cls = "Swimming"
    /\ training.count_pool = FromInt(40)
    /\ Len(out) = 1

\* the driver has finished the package RUN [15000, 1, 75]
RunScenario == Taken /\ pc = "done" /\ First = MainPackages[2]

(* C5 as stated: RUN [15000, 1, 75] prints distance 9.750, mean speed      *)
(* 9.750 and calories 691.200.                                             *)
C5_Calories691 ==
    RunScenario =>
        /\ out[1].distance = 9750
        /\ out[1].speed = 9750
        /\ out[1].calories = 691200

(* C5 amended: RUN [15000, 1, 75] prints distance 9.750, mean speed 9.750  *)
(* and calories 699.750, the value of the Running formula                  *)
(* (18 * mean_speed - 20) * weight_kg / 1000 * duration_hours * 60.        *)
C5_RunScenario ==
    RunScenario =>
        /\ out[1].distance = 9750
        /\ out[1].speed = 9750
        /\ out[1].calories = 699750
        /\ info.calories =
              Mul(Mul(TrueDiv(Mul(Sub(Mul(FromInt(18), info.speed),
                                      FromInt(20)),
                                  FromInt(75)),
                              FromInt(1000)),
                      FromInt(1)),
                  FromInt(60))

C5_Witness == RunScenario /\ out[1].training_type = "Running"

C7_ArityMismatch ==
    (Taken /\ First.workout_type \in RegisteredTags
           /\ Len(First.data) # Arity(First.workout_type)) =>
        /\ pc = "failed"
        /\ err.raise = "TypeError"
        /\ training = NoTraining
        /\ info = NoInfo
        /\ out = <<>>

C7_Witness ==
    /\ Taken
    /\ First.workout_type = "RUN"
    /\ Len(First.data) = 4
    /\ pc = "failed"
    /\ err.raise = "TypeError"

(* C8: get_spent_calories on an instance of the base class raises          *)
(* NotImplementedError whatever its fields hold, so main on such an        *)
(* instance never returns a report nor prints a line; and the registry     *)
(* maps no tag to the base class.                                          *)
C8_BaseUnimplemented ==
    /\ (training.cls = "Training") =>
          /\ get_spent_calories(training)
                = Raise("NotImplementedError", "Training", <<>>)
          /\ pc # "main" =>
                /\ pc = "failed"
                /\ info = NoInfo
                /\ out = <<>>
                /\ err.raise =
                      IF training.duration.n = 0
                      THEN "ZeroDivisionError"
                      ELSE "NotImplementedError"
    /\ \A i \in 1..Len(workout_types) : workout_types[i].value # "Training"
    /\ \A tag \in Tags :
          LET r == read_package(tag, <<FromInt(0), FromInt(1), FromInt(75)>>)
          IN  IsRaise(r) \/ r.cls # "Training"

C8_Witness ==
    /\ training.cls = "Training"
    /\ training.duration.n # 0
    /\ pc = "failed"
    /\ err.raise = "NotImplementedError"

\* whether main prints a line for the package p
Succeeds(p) ==
    LET t == read_package(p.workout_type, p.data)
    IN  ~IsRaise(t) /\ ~IsRaise(show_training_info(t))

\* the exception the package p ends the program with, if it does not succeed
Failure(p) ==
    LET t == read_package(p.workout_type, p.data)
    IN  IF IsRaise(t) THEN t ELSE show_training_info(t)

\* the line main prints for the package p, if it succeeds
Line(p) ==
    get_message(show_training_info(read_package(p.workout_type, p.data)))

\* the lines printed are those of the first packages of the list, one each
OutputIsPrefix ==
    /\ Len(out) <= Len(packages)
    /\ \A k \in 1..Len(out) :
          Succeeds(packages[k]) /\ out[k] = Line(packages[k])

\* the number of lines at each position of the driver, and at a failure
\* the package that failed, the exception, and the end of the program
DriverProgress ==
    /\ pc = "read" => Len(out) = idx /\ idx < Len(packages)
    /\ pc = "main" => Len(out) = idx - 1 /\ idx >= 1
    /\ pc = "done" => Len(out) = idx /\ idx = Len(packages)
    /\ pc = "failed" =>
          /\ idx >= 1
          /\ Len(out) = idx - 1
          /\ ~Succeeds(packages[idx])
          /\ err = Failure(packages[idx])
          /\ ~ENABLED Next
    /\ pc \in {"read", "main", "done"} => err = NoError

(* C9: the lines printed are always the lines of a prefix of the list, in  *)
(* list order and one per package; a line is only ever added at the end;   *)
(* and when read_package or the computation fails at the package of        *)
(* 0-based index i, exactly i lines have been printed, the exception has   *)
(* left the program and no further step is taken.                          *)
C9_OutputInListOrder ==
    /\ [](OutputIsPrefix /\ DriverProgress)
    /\ [][/\ Len(out') \in {Len(out), Len(out) + 1}
          /\ SubSeq(out', 1, Len(out)) = out
          /\ pc = "failed" => pc' = "failed"]_vars

C9_Witness ==
    /\ pc = "failed"
    /\ idx = 3
    /\ Len(out) = 2
    /\ out[1].training_type = "Swimming"
    /\ out[2].training_type = "Running"
    /\ err.raise = "ValueError"

\* the driver has finished the package WLK [9000, 1, 75, 180]
WalkScenario == Taken /\ pc = "done" /\ First = MainPackages[3]

(* C10: SportsWalking calories are (0.035 * weight_kg +                    *)
(* floor(mean_speed^2 / height_cm) * 0.029 * weight_kg) * duration_hours * *)
(* 60, the square taken before the floor division; so when mean_speed^2 <  *)
(* height_cm they are 0.035 * weight_kg * duration_hours * 60, and WLK     *)
(* [9000, 1, 75, 180] prints distance 5.850, mean speed 5.850 and          *)
(* calories 157.500.                                                       *)
C10_WalkingCalories ==
    /\ (Taken /\ pc = "done" /\ training.cls = "SportsWalking") =>
          LET weight == First.data[3]
              height == First.data[4]
              hours == First.data[2]
              square == Mul(info.speed, info.speed)
              floor == (square.n * height.d) \div (square.d * height.n)
              base == Mul(Q(35, 1000), weight)
          IN  /\ info.calories =
                    Mul(Mul(Add(base,
                                Mul(Mul(FromInt(floor), Q(29, 1000)),
                                    weight)),
                            hours),
                        FromInt(60))
              /\ square.n * height.d < height.n * square.d =>
                    info.calories = Mul(Mul(base, hours), FromInt(60))
    /\ WalkScenario =>
          /\ out[1].distance = 5850
          /\ out[1].speed = 5850
          /\ out[1].calories = 157500

C10_Witness ==
    /\ WalkScenario
    /\ out[1].training_type = "SportsWalking"
    /\ info.speed = Q(585, 100)

=============================================================================
